---- MODULE Spec2Model ----
(***************************************************************************)
(* Nearest-centroid event similarity predictor                             *)
(* (src/ml/train_event_similarity_predictor.py) and its threshold sweep    *)
(* (src/ml/tune_similarity_threshold.py).                                  *)
(*                                                                         *)
(* Numbers.  The program computes in floating point; the model computes    *)
(* in fixed point.  Feature values (day_of_year, distance_km, start_hour,  *)
(* normalised values, temporal distance) are integers in hundredths;       *)
(* coordinates are hundredths of a degree.  A composite distance, and a    *)
(* threshold, is an integer in units of 1/200 (so that the halves of       *)
(* 0.5 * temporal + 0.5 * spatial stay exact): the default threshold 0.40  *)
(* is 80.  A confidence 1 - d/threshold is the exact fraction              *)
(* (threshold - d) / threshold, kept as [num, den]; den = 0 is the NaN     *)
(* that 0/0 gives.  float('inf'), NaN and None are the sentinels Inf, NaN  *)
(* and NoneVal, which no arithmetic is ever applied to.                    *)
(***************************************************************************)
EXTENDS Integers, Sequences, FiniteSets, TLC

VARIABLES
    activities,          \* df: the raw activity table given to extract_simple_features
    lock,                \* the callers' exclusive lock: "none" (they use none), "free", "held"
    centroids,           \* self.centroids: the items of the mapping, in insertion order
    scaler,              \* self.scaler
    distance_threshold,  \* self.distance_threshold
    train_features,      \* the training table: the one given to the most recent fit
    fit_status,          \* "never", or how the most recent fit ended: "fitted", "failed";
                         \* "fitting" between the two assignments of a fit under way
    result,              \* the outcome of the most recent call
    fit_calls,           \* how many times fit has been called: 0, 1, 2 for two or more
    min_support,         \* the min_samples argument given to compute_event_centroids
    test_features,       \* the threshold sweep's held-out table
    sweep_i,             \* the threshold sweep: index of the next threshold
    sweep_log            \* the threshold sweep: the counts reported so far

vars == <<activities, lock, centroids, scaler, distance_threshold, train_features, fit_status, result,
          fit_calls, min_support, test_features, sweep_i, sweep_log>>

-----------------------------------------------------------------------------
(* Sentinels *)

\* float('inf'): greater than every distance of the model
Inf == 100000000

\* np.nan: a missing coordinate, or an undefined distance
NaN == -999999

\* Python None: the spatial mean of a group with no coordinates at all
NoneVal == -999998

\* predicted_event = None
NoEvent == "None"

-----------------------------------------------------------------------------
(* Program constants *)

MIN_SAMPLES_PER_EVENT == 3

\* 0.40, in units of 1/200
DISTANCE_THRESHOLD == 80

-----------------------------------------------------------------------------
(* Arithmetic helpers *)

Abs(x) == IF x < 0 THEN 0 - x ELSE x

\* the element of a one-element set: Only({e(x) : x \in {v}}) is e(v), with v
\* evaluated once
Only(S) == CHOOSE x \in S : TRUE

RECURSIVE Bisect(_, _, _)
\* the largest r in lo..hi with r*r <= n, given lo*lo <= n
Bisect(n, lo, hi) ==
    IF lo >= hi THEN lo
    ELSE LET mid == (lo + hi + 1) \div 2
         IN IF mid * mid <= n THEN Bisect(n, mid, hi) ELSE Bisect(n, lo, mid - 1)

\* floor of the square root (np.sqrt, math.sqrt)
isqrt(n) == Bisect(n, 0, 46340)

RECURSIVE SumSeq(_)
SumSeq(s) == IF s = <<>> THEN 0 ELSE Head(s) + SumSeq(Tail(s))

\* the column `col` of a table of rows
Column(df, col) == [i \in 1..Len(df) |-> df[i][col]]

\* a mean with the missing values counted as 0 (fillna(0).mean())
mean_fillna(xs) ==
    IF xs = <<>> \/ \A i \in 1..Len(xs) : xs[i] = NaN THEN NaN
    ELSE SumSeq([i \in 1..Len(xs) |-> IF xs[i] = NaN THEN 0 ELSE xs[i]]) \div Len(xs)

\* Series.mean(): skips NaN
mean(xs) ==
    LET present == SelectSeq(xs, LAMBDA x : x # NaN)
    IN IF present = <<>> THEN NaN ELSE SumSeq(present) \div Len(present)

-----------------------------------------------------------------------------
(* haversine_distance: great-circle distance, in hundredths of a km.       *)
(* The model's coordinates lie on one meridian (lon1 = lon2), where        *)
(* a = sin^2(dlat/2) and c = 2*atan2(sqrt a, sqrt(1-a)) = |dlat|, so the    *)
(* distance is R * |dlat| * pi/180 = 111.195 km per degree.                *)
(* A NaN argument propagates to a NaN result.                              *)
haversine_distance(lat1, lon1, lat2, lon2) ==
    IF lat1 = NaN \/ lon1 = NaN \/ lat2 = NaN \/ lon2 = NaN THEN NaN
    ELSE (Abs(lat2 - lat1) * 111195) \div 1000

-----------------------------------------------------------------------------
(* StandardScaler *)

TemporalCols == <<"day_of_year", "distance_km", "start_hour">>

\* StandardScaler(): not fitted yet
NewScaler == [fitted |-> FALSE, mean_ |-> <<0, 0, 0>>, scale_ |-> <<100, 100, 100>>]

RECURSIVE ColSum(_, _, _)
\* the sum of df[1..i][col]
ColSum(df, col, i) == IF i = 0 THEN 0 ELSE df[i][col] + ColSum(df, col, i - 1)

RECURSIVE ColSumSq(_, _, _)
\* the sum of the squares of df[1..i][col]
ColSumSq(df, col, i) == IF i = 0 THEN 0 ELSE df[i][col] * df[i][col] + ColSumSq(df, col, i - 1)

\* the standard deviation with no replacement of 0 (scale_ = sqrt(var_))
ScaleOf_unguarded(n, s, q) == isqrt(n * q - s * s) \div n

\* the population standard deviation of n values with sum s and sum of
\* squares q: sqrt(q/n - (s/n)^2); 1.0 for a zero-variance column
\* (sklearn's _handle_zeros_in_scale)
ScaleOf(n, s, q) == Only({IF sd = 0 THEN 100 ELSE sd : sd \in {isqrt(n * q - s * s) \div n}})

\* StandardScaler.fit(X) for a non-empty X
ScalerFit(df) ==
    [fitted |-> TRUE,
     mean_ |-> [k \in 1..3 |-> ColSum(df, TemporalCols[k], Len(df)) \div Len(df)],
     scale_ |-> [k \in 1..3 |-> ScaleOf(Len(df), ColSum(df, TemporalCols[k], Len(df)),
                                        ColSumSq(df, TemporalCols[k], Len(df)))]]

\* StandardScaler.transform of one row <<day, dist, hour>>
ScalerTransform(sc, x) == [k \in 1..3 |-> ((x[k] - sc.mean_[k]) * 100) \div sc.scale_[k]]

-----------------------------------------------------------------------------
(* extract_simple_features *)
(* A raw table is [columns, rows]: the names of its columns and its rows;   *)
(* a row has a field for every column name the function may read, and the   *)
(* fields of absent columns are never read.  `distance` is in metres,       *)
(* `distance_km` in hundredths of a km, `date` is the timestamp             *)
(* [year, month, day, hour, minute] that pd.to_datetime parses.             *)

\* the days of the months before `month`, in a year that is not a leap year
DaysBeforeMonth == <<0, 31, 59, 90, 120, 151, 181, 212, 243, 273, 304, 334>>

IsLeapYear(year) == year % 4 = 0 /\ (year % 100 # 0 \/ year % 400 = 0)

\* dates.dt.dayofyear
dayofyear(date) ==
    DaysBeforeMonth[date.month] + date.day
        + (IF date.month > 2 /\ IsLeapYear(date.year) THEN 1 ELSE 0)

\* the mid-month day of each month, used when the table has no date column
month_to_day_of_year == <<15, 45, 74, 105, 135, 166, 196, 227, 258, 288, 319, 349>>

\* the feature row with months of thirty days in the fallback
\* (day_of_year = 30 * month)
ExtractRow_thirty_day_months(columns, row) ==
    [event_name |-> row.event_name,
     day_of_year |-> IF "date" \in columns THEN 100 * dayofyear(row.date)
                     ELSE 100 * 30 * row.month,
     start_hour |-> IF "date" \in columns
                    THEN 100 * row.date.hour + (100 * row.date.minute) \div 60
                    ELSE 100 * row.hour,
     distance_km |-> IF "distance" \in columns THEN row.distance \div 10
                     ELSE row.distance_km,
     start_lat |-> row.start_lat,
     start_lng |-> row.start_lng]

\* the feature row of one raw row of a table with the given columns
ExtractRow(columns, row) ==
    [event_name |-> row.event_name,
     day_of_year |-> IF "date" \in columns THEN 100 * dayofyear(row.date)
                     ELSE 100 * month_to_day_of_year[row.month],
     start_hour |-> IF "date" \in columns
                    THEN 100 * row.date.hour + (100 * row.date.minute) \div 60
                    ELSE 100 * row.hour,
     distance_km |-> IF "distance" \in columns THEN row.distance \div 10
                     ELSE row.distance_km,
     start_lat |-> row.start_lat,
     start_lng |-> row.start_lng]

\* extract_simple_features(df): the feature table, or the exception; reading a
\* column the table does not have raises KeyError
extract_simple_features(df) ==
    IF "date" \notin df.columns /\ {"month", "hour"} \ df.columns # {}
    THEN [exc |-> "KeyError", features |-> <<>>]
    ELSE IF {"distance", "distance_km"} \cap df.columns = {}
    THEN [exc |-> "KeyError", features |-> <<>>]
    ELSE [exc |-> "",
          features |-> [i \in 1..Len(df.rows) |-> ExtractRow(df.columns, df.rows[i])]]

-----------------------------------------------------------------------------
(* compute_event_centroids *)

RECURSIVE Distinct(_)
\* the distinct values of a sequence, in order of first appearance
Distinct(s) ==
    IF s = <<>> THEN <<>>
    ELSE <<Head(s)>> \o SelectSeq(Distinct(Tail(s)), LAMBDA e : e # Head(s))

\* number of rows of the table labelled `event`
CountRows(df, event) == Len(SelectSeq(df, LAMBDA r : r.event_name = event))

RECURSIVE InsertByCount(_, _, _)
InsertByCount(x, s, df) ==
    IF s = <<>> THEN <<x>>
    ELSE IF CountRows(df, Head(s)) >= CountRows(df, x)
         THEN <<Head(s)>> \o InsertByCount(x, Tail(s), df)
         ELSE <<x>> \o s

RECURSIVE SortByCount(_, _)
SortByCount(names, df) ==
    IF names = <<>> THEN <<>>
    ELSE InsertByCount(names[Len(names)], SortByCount(SubSeq(names, 1, Len(names) - 1), df), df)

\* features_df['event_name'].value_counts().index: the labels by descending
\* count, equal counts in order of first appearance
value_counts(df) == SortByCount(Distinct(Column(df, "event_name")), df)

\* the centroid of one event: the mean of each feature over its rows; a
\* spatial mean is None when every row of the group lacks that coordinate
Centroid(df, event) ==
    LET event_data == SelectSeq(df, LAMBDA r : r.event_name = event)
        lat == mean(Column(event_data, "start_lat"))
        lng == mean(Column(event_data, "start_lng"))
    IN [event_name |-> event,
        day_of_year |-> mean(Column(event_data, "day_of_year")),
        distance_km |-> mean(Column(event_data, "distance_km")),
        start_hour |-> mean(Column(event_data, "start_hour")),
        start_lat |-> IF lat = NaN THEN NoneVal ELSE lat,
        start_lng |-> IF lng = NaN THEN NoneVal ELSE lng,
        sample_count |-> Len(event_data)]

\* compute_event_centroids with the support filter off by one
\* (event_counts >= min_samples - 1)
compute_event_centroids_off_by_one(df, min_samples) ==
    LET well_defined_events ==
            SelectSeq(value_counts(df), LAMBDA e : CountRows(df, e) >= min_samples - 1)
    IN [i \in 1..Len(well_defined_events) |-> Centroid(df, well_defined_events[i])]

\* The centroid mapping, as the sequence of its items in insertion order.
\* (std_distance, a diagnostic no code reads, is left out.)
compute_event_centroids(df, min_samples) ==
    LET well_defined_events ==
            SelectSeq(value_counts(df), LAMBDA e : CountRows(df, e) >= min_samples)
    IN [i \in 1..Len(well_defined_events) |-> Centroid(df, well_defined_events[i])]

\* centroids.keys()
Keys(cs) == {cs[i].event_name : i \in 1..Len(cs)}

-----------------------------------------------------------------------------
(* custom_distance *)

Returned(v) == [exc |-> "", val |-> v]

Raised(e) == [exc |-> e, val |-> 0]

\* np.sqrt(np.sum((norm1 - norm2) ** 2)), in hundredths
temporal_distance(features1, features2, sc) ==
    LET norm1 == ScalerTransform(sc, SubSeq(features1, 1, 3))
        norm2 == ScalerTransform(sc, SubSeq(features2, 1, 3))
    IN isqrt(SumSeq([k \in 1..3 |-> (norm1[k] - norm2[k]) * (norm1[k] - norm2[k])]))

\* custom_distance with the temporal term halved on the path without
\* coordinates too (return 0.5 * temporal_dist)
custom_distance_halved(features1, features2, sc) ==
    LET lat1 == features1[4]
        lon1 == features1[5]
        lat2 == features2[4]
        lon2 == features2[5]
        norm1 == ScalerTransform(sc, SubSeq(features1, 1, 3))
        norm2 == ScalerTransform(sc, SubSeq(features2, 1, 3))
        temporal_dist ==
            isqrt(SumSeq([k \in 1..3 |-> (norm1[k] - norm2[k]) * (norm1[k] - norm2[k])]))
        coord_dist == haversine_distance(lat1, lon1, lat2, lon2)
    IN IF ~sc.fitted THEN Raised("NotFittedError")
       ELSE IF lat1 = NoneVal THEN Raised("TypeError")
       ELSE IF lat1 = NaN THEN Returned(temporal_dist)
       ELSE IF lat2 = NoneVal THEN Raised("TypeError")
       ELSE IF lat2 = NaN THEN Returned(temporal_dist)
       ELSE IF lon1 = NoneVal \/ lon2 = NoneVal THEN Raised("TypeError")
       ELSE IF coord_dist = NaN THEN Returned(NaN)
       ELSE Returned(temporal_dist + coord_dist \div 10)

\* custom_distance with the two terms added without their weights
\* (return temporal_dist + coord_dist_norm)
custom_distance_unweighted(features1, features2, sc) ==
    LET lat1 == features1[4]
        lon1 == features1[5]
        lat2 == features2[4]
        lon2 == features2[5]
        norm1 == ScalerTransform(sc, SubSeq(features1, 1, 3))
        norm2 == ScalerTransform(sc, SubSeq(features2, 1, 3))
        temporal_dist ==
            isqrt(SumSeq([k \in 1..3 |-> (norm1[k] - norm2[k]) * (norm1[k] - norm2[k])]))
        coord_dist == haversine_distance(lat1, lon1, lat2, lon2)
    IN IF ~sc.fitted THEN Raised("NotFittedError")
       ELSE IF lat1 = NoneVal THEN Raised("TypeError")
       ELSE IF lat1 = NaN THEN Returned(2 * temporal_dist)
       ELSE IF lat2 = NoneVal THEN Raised("TypeError")
       ELSE IF lat2 = NaN THEN Returned(2 * temporal_dist)
       ELSE IF lon1 = NoneVal \/ lon2 = NoneVal THEN Raised("TypeError")
       ELSE IF coord_dist = NaN THEN Returned(NaN)
       ELSE Returned(2 * temporal_dist + 2 * (coord_dist \div 10))

\* The composite distance of two vectors <<day, dist, hour, lat, lon>>, in
\* units of 1/200, or the exception the call raises.
\*   scaler.transform on an unfitted scaler raises NotFittedError;
\*   np.isnan(None) raises TypeError, and `or` evaluates np.isnan(lat2) only
\*   when lat1 is not NaN; radians(None) raises TypeError.
custom_distance(features1, features2, sc) ==
    LET lat1 == features1[4]
        lon1 == features1[5]
        lat2 == features2[4]
        lon2 == features2[5]
        temporal_dist == temporal_distance(features1, features2, sc)
        coord_dist == haversine_distance(lat1, lon1, lat2, lon2)
    IN IF ~sc.fitted THEN Raised("NotFittedError")
       ELSE IF lat1 = NoneVal THEN Raised("TypeError")
       ELSE IF lat1 = NaN THEN Returned(2 * temporal_dist)
       ELSE IF lat2 = NoneVal THEN Raised("TypeError")
       ELSE IF lat2 = NaN THEN Returned(2 * temporal_dist)
       ELSE IF lon1 = NoneVal \/ lon2 = NoneVal THEN Raised("TypeError")
       ELSE IF coord_dist = NaN THEN Returned(NaN)
       ELSE Returned(temporal_dist + coord_dist \div 10)

-----------------------------------------------------------------------------
(* EventSimilarityPredictor *)

\* __init__: no centroids, an unfitted scaler, the threshold given
NewPredictor(threshold) ==
    [centroids |-> <<>>, scaler |-> NewScaler, distance_threshold |-> threshold]

\* fit that adds the new centroids to the ones it has (dict.update in place
\* of the assignment)
fit_accumulate(self, df) ==
    IF Len(df) = 0
    THEN [self |-> [self EXCEPT !.centroids = self.centroids \o
                                    compute_event_centroids(df, MIN_SAMPLES_PER_EVENT),
                                !.scaler = NewScaler],
          exc |-> "ValueError"]
    ELSE [self |-> [self EXCEPT !.centroids = self.centroids \o
                                    compute_event_centroids(df, MIN_SAMPLES_PER_EVENT),
                                !.scaler = ScalerFit(df)],
          exc |-> ""]

\* the rows of the events that get a centroid
RetainedRows(df) ==
    SelectSeq(df, LAMBDA r : r.event_name \in Keys(compute_event_centroids(df, MIN_SAMPLES_PER_EVENT)))

\* fit with the scaler fitted over the rows of the retained events only
fit_retained_only(self, df) ==
    IF Len(RetainedRows(df)) = 0
    THEN [self |-> [self EXCEPT !.centroids = compute_event_centroids(df, MIN_SAMPLES_PER_EVENT),
                                !.scaler = NewScaler],
          exc |-> "ValueError"]
    ELSE [self |-> [self EXCEPT !.centroids = compute_event_centroids(df, MIN_SAMPLES_PER_EVENT),
                                !.scaler = ScalerFit(RetainedRows(df))],
          exc |-> ""]

\* fit whose scaler keeps its parameters when fitting it raises (no reset
\* before the input is validated)
fit_keeping_scaler(self, df) ==
    IF Len(df) = 0
    THEN [self |-> [self EXCEPT !.centroids = compute_event_centroids(df, MIN_SAMPLES_PER_EVENT)],
          exc |-> "ValueError"]
    ELSE [self |-> [self EXCEPT !.centroids = compute_event_centroids(df, MIN_SAMPLES_PER_EVENT),
                                !.scaler = ScalerFit(df)],
          exc |-> ""]

\* fit(self, features_df): the predictor after the call, and the exception it
\* raised, if any.  The centroids are assigned first; StandardScaler.fit then
\* resets the scaler (self._reset()) and, on a table with no rows, raises
\* ValueError: the scaler is left unfitted.
fit(self, df) ==
    IF Len(df) = 0
    THEN [self |-> [self EXCEPT !.centroids = compute_event_centroids(df, MIN_SAMPLES_PER_EVENT),
                                !.scaler = NewScaler],
          exc |-> "ValueError"]
    ELSE [self |-> [self EXCEPT !.centroids = compute_event_centroids(df, MIN_SAMPLES_PER_EVENT),
                                !.scaler = ScalerFit(df)],
          exc |-> ""]

\* the tuple predict builds from a query or from a centroid
FeatureVector(f) == <<f.day_of_year, f.distance_km, f.start_hour, f.start_lat, f.start_lng>>

\* 0.0
ZeroConfidence == [num |-> 0, den |-> 1]

\* 1.0 - (min_distance / threshold), as the exact fraction; 0/0 is NaN (den = 0)
Confidence(min_distance, threshold) ==
    IF threshold = 0 THEN [num |-> 0, den |-> 0]
    ELSE [num |-> threshold - min_distance, den |-> threshold]

RECURSIVE NearestCentroid_first(_, _, _, _, _)
\* the loop of predict with the running minimum never replaced once set
\* (`if nearest_event is None` in place of `if dist < min_distance`)
NearestCentroid_first(self, feature_vector, i, min_distance, nearest_event) ==
    IF i > Len(self.centroids)
    THEN [exc |-> "", min_distance |-> min_distance, nearest_event |-> nearest_event]
    ELSE Only({
           IF dist.exc # ""
           THEN [exc |-> dist.exc, min_distance |-> min_distance, nearest_event |-> nearest_event]
           ELSE IF dist.val # NaN /\ nearest_event = NoEvent
                THEN NearestCentroid_first(self, feature_vector, i + 1, dist.val,
                                           self.centroids[i].event_name)
                ELSE NearestCentroid_first(self, feature_vector, i + 1, min_distance,
                                           nearest_event)
           : dist \in {custom_distance(feature_vector, FeatureVector(self.centroids[i]),
                                       self.scaler)}})

RECURSIVE NearestCentroid_last(_, _, _, _, _)
\* the loop of predict with a centroid at an equal distance replacing the
\* running minimum (`if dist <= min_distance`)
NearestCentroid_last(self, feature_vector, i, min_distance, nearest_event) ==
    IF i > Len(self.centroids)
    THEN [exc |-> "", min_distance |-> min_distance, nearest_event |-> nearest_event]
    ELSE Only({
           IF dist.exc # ""
           THEN [exc |-> dist.exc, min_distance |-> min_distance, nearest_event |-> nearest_event]
           ELSE IF dist.val # NaN /\ dist.val <= min_distance
                THEN NearestCentroid_last(self, feature_vector, i + 1, dist.val,
                                          self.centroids[i].event_name)
                ELSE NearestCentroid_last(self, feature_vector, i + 1, min_distance,
                                          nearest_event)
           : dist \in {custom_distance(feature_vector, FeatureVector(self.centroids[i]),
                                       self.scaler)}})

RECURSIVE NearestCentroid_early_exit(_, _, _, _, _)
\* the loop of predict ended at the first centroid within the threshold
\* (`if dist <= self.distance_threshold: break` after the update)
NearestCentroid_early_exit(self, feature_vector, i, min_distance, nearest_event) ==
    IF i > Len(self.centroids)
    THEN [exc |-> "", min_distance |-> min_distance, nearest_event |-> nearest_event]
    ELSE Only({
           IF dist.exc # ""
           THEN [exc |-> dist.exc, min_distance |-> min_distance, nearest_event |-> nearest_event]
           ELSE IF dist.val # NaN /\ dist.val < min_distance
                THEN IF dist.val <= self.distance_threshold
                     THEN [exc |-> "", min_distance |-> dist.val,
                           nearest_event |-> self.centroids[i].event_name]
                     ELSE NearestCentroid_early_exit(self, feature_vector, i + 1, dist.val,
                                                     self.centroids[i].event_name)
                ELSE NearestCentroid_early_exit(self, feature_vector, i + 1, min_distance,
                                                nearest_event)
           : dist \in {custom_distance(feature_vector, FeatureVector(self.centroids[i]),
                                       self.scaler)}})

RECURSIVE NearestCentroid_nan_admitted(_, _, _, _, _)
\* the loop written with `if not dist >= min_distance`, which a NaN distance
\* passes
NearestCentroid_nan_admitted(self, feature_vector, i, min_distance, nearest_event) ==
    IF i > Len(self.centroids)
    THEN [exc |-> "", min_distance |-> min_distance, nearest_event |-> nearest_event]
    ELSE Only({
           IF dist.exc # ""
           THEN [exc |-> dist.exc, min_distance |-> min_distance, nearest_event |-> nearest_event]
           ELSE IF dist.val = NaN \/ min_distance = NaN \/ dist.val < min_distance
                THEN NearestCentroid_nan_admitted(self, feature_vector, i + 1, dist.val,
                                                  self.centroids[i].event_name)
                ELSE NearestCentroid_nan_admitted(self, feature_vector, i + 1, min_distance,
                                                  nearest_event)
           : dist \in {custom_distance(feature_vector, FeatureVector(self.centroids[i]),
                                       self.scaler)}})

RECURSIVE NearestCentroid(_, _, _, _, _)
\* the loop of predict over centroids.items(), from item i on, with the
\* running min_distance and nearest_event; a NaN distance is never < anything
NearestCentroid(self, feature_vector, i, min_distance, nearest_event) ==
    IF i > Len(self.centroids)
    THEN [exc |-> "", min_distance |-> min_distance, nearest_event |-> nearest_event]
    ELSE Only({
           IF dist.exc # ""
           THEN [exc |-> dist.exc, min_distance |-> min_distance, nearest_event |-> nearest_event]
           ELSE IF dist.val # NaN /\ dist.val < min_distance
                THEN NearestCentroid(self, feature_vector, i + 1, dist.val,
                                     self.centroids[i].event_name)
                ELSE NearestCentroid(self, feature_vector, i + 1, min_distance, nearest_event)
           : dist \in {custom_distance(feature_vector, FeatureVector(self.centroids[i]),
                                       self.scaler)}})

\* the threshold check with `<` in place of `<=`
ThresholdGate_strict(min_distance, nearest_event, threshold) ==
    IF min_distance < threshold
    THEN [kind |-> "return", exc |-> "", event |-> nearest_event, distance |-> min_distance,
          confidence |-> Confidence(min_distance, threshold)]
    ELSE [kind |-> "return", exc |-> "", event |-> NoEvent, distance |-> min_distance,
          confidence |-> ZeroConfidence]

\* the threshold check with confidence = min_distance / threshold (the `1.0 -`
\* forgotten)
ThresholdGate_ratio(min_distance, nearest_event, threshold) ==
    IF min_distance <= threshold
    THEN [kind |-> "return", exc |-> "", event |-> nearest_event, distance |-> min_distance,
          confidence |-> [num |-> min_distance, den |-> threshold]]
    ELSE [kind |-> "return", exc |-> "", event |-> NoEvent, distance |-> min_distance,
          confidence |-> ZeroConfidence]

\* the threshold check with the comparison the wrong way round
ThresholdGate_reversed(min_distance, nearest_event, threshold) ==
    IF min_distance >= threshold
    THEN [kind |-> "return", exc |-> "", event |-> nearest_event, distance |-> min_distance,
          confidence |-> Confidence(min_distance, threshold)]
    ELSE [kind |-> "return", exc |-> "", event |-> NoEvent, distance |-> min_distance,
          confidence |-> ZeroConfidence]

\* the threshold check that ends predict, on the loop's min_distance and
\* nearest_event
ThresholdGate(min_distance, nearest_event, threshold) ==
    IF min_distance <= threshold
    THEN [kind |-> "return", exc |-> "", event |-> nearest_event, distance |-> min_distance,
          confidence |-> Confidence(min_distance, threshold)]
    ELSE [kind |-> "return", exc |-> "", event |-> NoEvent, distance |-> min_distance,
          confidence |-> ZeroConfidence]

\* predict(self, features): (event, distance, confidence), or the exception
predict(self, features) ==
    Only({
      IF nearest.exc # ""
      THEN [kind |-> "raise", exc |-> nearest.exc, event |-> NoEvent,
            distance |-> 0, confidence |-> ZeroConfidence]
      ELSE ThresholdGate(nearest.min_distance, nearest.nearest_event, self.distance_threshold)
      : nearest \in {NearestCentroid(self, FeatureVector(features), 1, Inf, NoEvent)}})

RECURSIVE BatchRows(_, _, _)
\* the loop of predict_batch over the rows i.. of the table
BatchRows(self, df, i) ==
    IF i > Len(df) THEN [exc |-> "", predictions |-> <<>>]
    ELSE Only({
           IF r.kind = "raise" THEN [exc |-> r.exc, predictions |-> <<>>]
           ELSE Only({
                  IF rest.exc # "" THEN rest
                  ELSE [exc |-> "",
                        predictions |-> <<[predicted_event |-> r.event, distance |-> r.distance,
                                           confidence |-> r.confidence,
                                           actual_event |-> df[i].event_name]>>
                                        \o rest.predictions]
                  : rest \in {BatchRows(self, df, i + 1)}})
           : r \in {predict(self, df[i])}})

RECURSIVE Reverse(_)
Reverse(s) == IF s = <<>> THEN <<>> ELSE Reverse(Tail(s)) \o <<Head(s)>>

\* predict_batch that returns its rows last row first
predict_batch_reversed(self, df) ==
    Only({[exc |-> b.exc, predictions |-> Reverse(b.predictions)]
          : b \in {BatchRows(self, df, 1)}})

\* predict_batch(self, features_df): one prediction per row, in row order, or
\* the exception of the first predict that raises
predict_batch(self, df) == BatchRows(self, df, 1)

-----------------------------------------------------------------------------
(* The threshold sweep of tune_similarity_threshold.py *)

\* thresholds = [0.10, 0.15, 0.20, 0.25, 0.30, 0.40, 0.50], in units of 1/200
thresholds == <<20, 30, 40, 50, 60, 80, 100>>

\* the counts one iteration of the sweep reports, from the predictions of the
\* iteration's predictor; `correct` keeps the value of the previous iteration
\* when there are no known-event rows, and is unbound on the first iteration;
\* pd.DataFrame([]) of an empty test split has no 'actual_event' column
SweepMetrics(self, predictions, log) ==
    LET known_events == Keys(self.centroids)
        test_known == SelectSeq(predictions, LAMBDA r : r.actual_event \in known_events)
        test_unknown == SelectSeq(predictions, LAMBDA r : r.actual_event \notin known_events)
        correct ==
            IF Len(test_known) > 0
            THEN Len(SelectSeq(test_known, LAMBDA r : r.predicted_event = r.actual_event))
            ELSE log[Len(log)].correct
        correct_rejected ==
            IF Len(test_unknown) > 0
            THEN Len(SelectSeq(test_unknown, LAMBDA r : r.predicted_event = NoEvent))
            ELSE 0
    IN IF Len(predictions) = 0 THEN [exc |-> "KeyError", entry |-> <<>>]
       ELSE IF Len(test_known) = 0 /\ log = <<>> THEN [exc |-> "NameError", entry |-> <<>>]
       ELSE [exc |-> "",
             entry |-> [threshold |-> self.distance_threshold,
                        correct |-> correct, known |-> Len(test_known),
                        correct_rejected |-> correct_rejected, unknown |-> Len(test_unknown),
                        overall_correct |-> correct + correct_rejected,
                        total |-> Len(predictions)]]

\* one iteration of the sweep: a new predictor with the threshold, fitted on
\* the train split, predicts the test split; the predictor it leaves, and the
\* counts or the exception that ends the script
sweep_iteration(threshold, train, test, log) ==
    Only({
      IF after.exc # "" THEN [self |-> after.self, fit_exc |-> after.exc, exc |-> after.exc,
                              entry |-> <<>>]
      ELSE Only({
             IF batch.exc # ""
             THEN [self |-> after.self, fit_exc |-> "", exc |-> batch.exc, entry |-> <<>>]
             ELSE Only({[self |-> after.self, fit_exc |-> "", exc |-> m.exc, entry |-> m.entry]
                        : m \in {SweepMetrics(after.self, batch.predictions, log)}})
             : batch \in {predict_batch(after.self, test)}})
      : after \in {fit(NewPredictor(threshold), train)}})

-----------------------------------------------------------------------------
(* Bounded inputs *)

\* most rows of a training table
MaxRows == 6

Events == {"A", "B"}

\* A recurring event's typical occurrence, with start coordinates
\* (day 10, 14 km, 07:00, 33.89 S 151.27 E) ...
F1 == [day_of_year |-> 1000, distance_km |-> 1400, start_hour |-> 700,
       start_lat |-> -3389, start_lng |-> 15127]

\* ... and another one, recorded without coordinates (day 14, 20 km, 06:00)
F2 == [day_of_year |-> 1400, distance_km |-> 2000, start_hour |-> 600,
       start_lat |-> NaN, start_lng |-> NaN]

Labelled(f, event) ==
    [event_name |-> event, day_of_year |-> f.day_of_year, distance_km |-> f.distance_km,
     start_hour |-> f.start_hour, start_lat |-> f.start_lat, start_lng |-> f.start_lng]

RowTypes == <<Labelled(F1, "A"), Labelled(F1, "B"), Labelled(F2, "A"), Labelled(F2, "B")>>

RECURSIVE NonDecreasing(_, _, _)
\* the non-decreasing sequences of n indices from lo..hi
NonDecreasing(n, lo, hi) ==
    IF n = 0 THEN {<<>>}
    ELSE UNION {{<<k>> \o t : t \in NonDecreasing(n - 1, k, hi)} : k \in lo..hi}

\* the tables of up to max rows drawn from a sequence of row types, rows of
\* one type together
TablesOf(types, max) ==
    UNION {{[i \in 1..n |-> types[ix[i]]] : ix \in NonDecreasing(n, 1, Len(types))}
           : n \in 0..max}

\* the training tables
Populations == TablesOf(RowTypes, MaxRows)

\* the tables a predictor that has been fitted before is fitted on again: the
\* empty table and the tables of exactly MIN_SAMPLES_PER_EVENT rows
Refits == {df \in Populations : Len(df) = 0 \/ Len(df) = MIN_SAMPLES_PER_EVENT}

\* the tables fit is called with: any population the first time, a table of
\* Refits after that
Tables(status) == IF status = "never" THEN Populations ELSE Refits

\* the thresholds a predictor is constructed with: 0, the default 0.40, 1.0
Thresholds == {0, DISTANCE_THRESHOLD, 200}

\* the queries: F1 itself; F1 without its coordinates; F1 twelve minutes
\* later, without coordinates; F1 started 1 km further north; F2 with
\* coordinates; an activity far from both; F1 started at 7.21 h, 4.4 km
\* further north
Q1 == F1

Q2 == [F1 EXCEPT !.start_lat = NaN, !.start_lng = NaN]

Q3 == [F1 EXCEPT !.start_hour = 720, !.start_lat = NaN, !.start_lng = NaN]

Q4 == [F1 EXCEPT !.start_lat = -3388]

Q5 == [F2 EXCEPT !.start_lat = -3389, !.start_lng = 15127]

Q6 == [day_of_year |-> 3000, distance_km |-> 4200, start_hour |-> 2000,
       start_lat |-> NaN, start_lng |-> NaN]

Q7 == [F1 EXCEPT !.start_hour = 721, !.start_lat = -3385]

Queries == {Q1, Q2, Q3, Q4, Q5, Q6, Q7}

\* an occurrence recorded with a latitude and no longitude
F3 == [F2 EXCEPT !.start_lat = -3389]

\* the training rows of the populations with half-recorded coordinates
PartialRowTypes == <<Labelled(F1, "A"), Labelled(F1, "B"), Labelled(F3, "B")>>

\* the tables fit is called with there: any population the first time, the
\* empty table or one of MIN_SAMPLES_PER_EVENT rows after that
PartialTables(status) ==
    IF status = "never" THEN TablesOf(PartialRowTypes, MaxRows)
    ELSE {df \in TablesOf(PartialRowTypes, MIN_SAMPLES_PER_EVENT) :
             Len(df) = 0 \/ Len(df) = MIN_SAMPLES_PER_EVENT}

\* F1 with its latitude and no longitude
Q8 == [F1 EXCEPT !.start_lng = NaN]

\* the queries there: F1, F1 without longitude, F1 without coordinates, the
\* far activity
PartialQueries == {Q1, Q8, Q2, Q6}

\* most rows of a table given to predict_batch
MaxBatch == 2

\* the rows of a batch: a query and the label its activity carries
BatchRowTypes == {Labelled(Q1, "A"), Labelled(Q3, "B"), Labelled(Q6, "C")}

\* the tables predict_batch is called with: the rows in any order, repeated or not
Batches == UNION {[1..n -> BatchRowTypes] : n \in 0..MaxBatch}

\* most rows of a raw activity table
MaxActivities == 3

\* the column sets of a raw table, besides start_lat, start_lng and
\* event_name: with a date or with month and hour; with the metre column, the
\* kilometre column, both or neither
ColumnSets ==
    {time \cup dist : time \in {{"date"}, {"month", "hour"}},
                      dist \in {{"distance"}, {"distance_km"}, {"distance", "distance_km"}, {}}}

\* 10 January 2023, 07:00, 14 km, at 33.89 S 151.27 E
Raw1 == [date |-> [year |-> 2023, month |-> 1, day |-> 10, hour |-> 7, minute |-> 0],
         month |-> 1, hour |-> 7, distance |-> 14000, distance_km |-> 1400,
         start_lat |-> -3389, start_lng |-> 15127]

\* 1 March 2024, 06:30, 20 km by the metre column and 20.5 km by the
\* kilometre column, at 33.85 S 151.27 E
Raw2 == [date |-> [year |-> 2024, month |-> 3, day |-> 1, hour |-> 6, minute |-> 30],
         month |-> 3, hour |-> 6, distance |-> 20000, distance_km |-> 2050,
         start_lat |-> -3385, start_lng |-> 15127]

\* Raw1 with no coordinates, with no latitude, with no longitude
Raw3 == [Raw1 EXCEPT !.start_lat = NaN, !.start_lng = NaN]

Raw4 == [Raw1 EXCEPT !.start_lat = NaN]

Raw5 == [Raw1 EXCEPT !.start_lng = NaN]

RawLabelled(r, event) ==
    [event_name |-> event, date |-> r.date, month |-> r.month, hour |-> r.hour,
     distance |-> r.distance, distance_km |-> r.distance_km,
     start_lat |-> r.start_lat, start_lng |-> r.start_lng]

RawRowTypes ==
    <<RawLabelled(Raw1, "A"), RawLabelled(Raw2, "A"), RawLabelled(Raw3, "A"),
      RawLabelled(Raw4, "A"), RawLabelled(Raw5, "A"), RawLabelled(Raw1, "B"),
      RawLabelled(Raw4, "B")>>

\* the raw activity tables
RawTables ==
    {[columns |-> c, rows |-> rows] : c \in ColumnSets,
                                      rows \in TablesOf(RawRowTypes, MaxActivities)}

\* the hours of the rows of a table without a date column
FallbackHours == {0, 7, 23}

\* the raw tables without a date column: two rows, of any two months
FallbackTables ==
    {[columns |-> {"month", "hour", "distance"},
      rows |-> <<RawLabelled([Raw1 EXCEPT !.month = m1, !.hour = h1], "A"),
                 RawLabelled([Raw1 EXCEPT !.month = m2, !.hour = h2], "A")>>]
     : m1 \in 1..12, m2 \in 1..12, h1 \in FallbackHours, h2 \in FallbackHours}

\* no raw table
NoActivities == [columns |-> {}, rows |-> <<>>]

\* largest min_samples compute_event_centroids is called with
MaxMinSamples == 4

\* most rows of the sweep's test table
MaxTest == 2

\* the sweep's train split: the populations of MaxRows rows
TuneTrainTables == {df \in Populations : Len(df) = MaxRows}

\* the rows of the sweep's test split; "C" is an event no training table has
TestRowTypes ==
    <<Labelled(Q2, "A"), Labelled(Q3, "A"), Labelled(Q4, "B"), Labelled(F2, "B"),
      Labelled(Q3, "C"), Labelled(Q6, "C")>>

TestTables == TablesOf(TestRowTypes, MaxTest)

-----------------------------------------------------------------------------
(* The predictor as a state machine *)

Self == [centroids |-> centroids, scaler |-> scaler, distance_threshold |-> distance_threshold]

NoQuery == [day_of_year |-> 0, distance_km |-> 0, start_hour |-> 0,
            start_lat |-> NaN, start_lng |-> NaN]

\* the outcome of a call: of predict, the query and the tuple; of
\* predict_batch, the rows given and the rows returned; of fit, the keys of
\* the centroid mapping as they were before the call
NoResult == [op |-> "none", query |-> NoQuery, kind |-> "none", exc |-> "", event |-> NoEvent,
             distance |-> 0, confidence |-> ZeroConfidence,
             rows |-> <<>>, predictions |-> <<>>, prior_keys |-> {}]

\* predictor = EventSimilarityPredictor(distance_threshold = t)
Init ==
    /\ distance_threshold \in Thresholds
    /\ activities = NoActivities
    /\ lock = "none"
    /\ centroids = <<>>
    /\ scaler = NewScaler
    /\ train_features = <<>>
    /\ fit_status = "never"
    /\ fit_calls = 0
    /\ result = NoResult
    /\ min_support = MIN_SAMPLES_PER_EVENT
    /\ test_features = <<>>
    /\ sweep_i = 1
    /\ sweep_log = <<>>

\* predictor.fit(df)
Fit(df) ==
    \E after \in {fit(Self, df)} :
       /\ centroids' = after.self.centroids
       /\ scaler' = after.self.scaler
       /\ distance_threshold' = after.self.distance_threshold
       /\ train_features' = df
       /\ fit_status' = IF after.exc = "" THEN "fitted" ELSE "failed"
       /\ fit_calls' = IF fit_calls < 2 THEN fit_calls + 1 ELSE fit_calls
       /\ result' = [NoResult EXCEPT !.op = "fit",
                                     !.kind = IF after.exc = "" THEN "return" ELSE "raise",
                                     !.exc = after.exc,
                                     !.prior_keys = Keys(centroids)]
       /\ UNCHANGED <<activities, lock, min_support, test_features, sweep_i, sweep_log>>

\* predict that tightens the threshold to the distance of the match it admits
\* (self.distance_threshold = min_distance)
Predict_tightening(q) ==
    \E r \in {predict(Self, q)} :
       /\ result' = [NoResult EXCEPT !.op = "predict", !.query = q, !.kind = r.kind,
                                     !.exc = r.exc, !.event = r.event,
                                     !.distance = r.distance, !.confidence = r.confidence]
       /\ distance_threshold' = IF r.kind = "return" /\ r.event # NoEvent
                                THEN r.distance ELSE distance_threshold
       /\ UNCHANGED <<activities, lock, centroids, scaler, train_features,
                      fit_status, fit_calls, min_support, test_features, sweep_i, sweep_log>>

\* predictor.predict(q)
Predict(q) ==
    \E r \in {predict(Self, q)} :
       /\ result' = [NoResult EXCEPT !.op = "predict", !.query = q, !.kind = r.kind,
                                     !.exc = r.exc, !.event = r.event,
                                     !.distance = r.distance, !.confidence = r.confidence]
       /\ UNCHANGED <<activities, lock, centroids, scaler, distance_threshold, train_features,
                      fit_status, fit_calls, min_support, test_features, sweep_i, sweep_log>>

\* predictor.predict_batch(df)
PredictBatch(df) ==
    \E b \in {predict_batch(Self, df)} :
       /\ result' = [NoResult EXCEPT !.op = "predict_batch", !.rows = df,
                                     !.kind = IF b.exc = "" THEN "return" ELSE "raise",
                                     !.exc = b.exc, !.predictions = b.predictions]
       /\ UNCHANGED <<activities, lock, centroids, scaler, distance_threshold, train_features,
                      fit_status, fit_calls, min_support, test_features, sweep_i, sweep_log>>

Next ==
    \/ \E df \in Tables(fit_status) : Fit(df)
    \/ \E q \in Queries : Predict(q)

Spec == Init /\ [][Next]_vars

\* the predictor with predict_batch among its calls, fitted on small tables
NextBatch ==
    \/ \E df \in Refits : Fit(df)
    \/ \E q \in Queries : Predict(q)
    \/ \E df \in Batches : PredictBatch(df)

SpecBatch == Init /\ [][NextBatch]_vars

-----------------------------------------------------------------------------
(* fit and predict called from different threads.  fit is two statements:   *)
(* self.centroids = compute_event_centroids(features_df), then              *)
(* self.scaler.fit(temporal_features); a predict of another thread can run   *)
(* between them unless the callers serialise the calls with a lock.          *)

\* the tables of the concurrent fits: the empty table, and three rows of one kind
ConcurrentTables ==
    {df \in Refits : \A i, j \in 1..Len(df) : df[i] = df[j]}

InitConcurrent ==
    /\ distance_threshold \in Thresholds
    /\ lock \in {"none", "free"}
    /\ activities = NoActivities
    /\ centroids = <<>>
    /\ scaler = NewScaler
    /\ train_features = <<>>
    /\ fit_status = "never"
    /\ fit_calls = 0
    /\ result = NoResult
    /\ min_support = MIN_SAMPLES_PER_EVENT
    /\ test_features = <<>>
    /\ sweep_i = 1
    /\ sweep_log = <<>>

\* the first statement of fit with the scaler fitted in it instead
\* (the two statements of fit in the other order)
FitCentroids_scaler_first(df) ==
    /\ fit_status # "fitting"
    /\ lock # "held"
    /\ lock' = IF lock = "free" THEN "held" ELSE lock
    /\ scaler' = fit(Self, df).self.scaler
    /\ train_features' = df
    /\ fit_status' = "fitting"
    /\ fit_calls' = IF fit_calls < 2 THEN fit_calls + 1 ELSE fit_calls
    /\ result' = [NoResult EXCEPT !.op = "fit", !.prior_keys = Keys(centroids)]
    /\ UNCHANGED <<activities, centroids, distance_threshold, min_support, test_features,
                   sweep_i, sweep_log>>

\* fit(df), first statement (under the lock, if the callers use one):
\* self.centroids = compute_event_centroids(features_df)
FitCentroids(df) ==
    /\ fit_status # "fitting"
    /\ lock # "held"
    /\ lock' = IF lock = "free" THEN "held" ELSE lock
    /\ centroids' = fit(Self, df).self.centroids
    /\ train_features' = df
    /\ fit_status' = "fitting"
    /\ fit_calls' = IF fit_calls < 2 THEN fit_calls + 1 ELSE fit_calls
    /\ result' = [NoResult EXCEPT !.op = "fit", !.prior_keys = Keys(centroids)]
    /\ UNCHANGED <<activities, scaler, distance_threshold, min_support, test_features,
                   sweep_i, sweep_log>>

\* fit(df), second statement, and the return or the exception:
\* self.scaler.fit(temporal_features)
FitScaler ==
    /\ fit_status = "fitting"
    /\ \E after \in {fit(Self, train_features)} :
          /\ scaler' = after.self.scaler
          /\ fit_status' = IF after.exc = "" THEN "fitted" ELSE "failed"
          /\ result' = [result EXCEPT !.kind = IF after.exc = "" THEN "return" ELSE "raise",
                                      !.exc = after.exc]
    /\ lock' = IF lock = "held" THEN "free" ELSE lock
    /\ UNCHANGED <<activities, centroids, distance_threshold, train_features, fit_calls,
                   min_support, test_features, sweep_i, sweep_log>>

\* predict(q) of another thread, under the lock if the callers use one
ConcurrentPredict(q) ==
    /\ lock # "held"
    /\ Predict(q)

NextConcurrent ==
    \/ \E df \in ConcurrentTables : FitCentroids(df)
    \/ FitScaler
    \/ \E q \in Queries : ConcurrentPredict(q)

SpecConcurrent == InitConcurrent /\ [][NextConcurrent]_vars

-----------------------------------------------------------------------------
(* compute_event_centroids as a function of its two arguments *)

InitCentroids ==
    /\ train_features \in Populations
    /\ min_support \in 1..MaxMinSamples
    /\ activities = NoActivities
    /\ lock = "none"
    /\ centroids = <<>>
    /\ scaler = NewScaler
    /\ distance_threshold = DISTANCE_THRESHOLD
    /\ fit_status = "never"
    /\ fit_calls = 0
    /\ result = NoResult
    /\ test_features = <<>>
    /\ sweep_i = 1
    /\ sweep_log = <<>>

\* centroids = compute_event_centroids(train_features, min_support)
ComputeCentroids ==
    /\ result.op = "none"
    /\ centroids' = compute_event_centroids(train_features, min_support)
    /\ result' = [NoResult EXCEPT !.op = "compute_event_centroids", !.kind = "return"]
    /\ UNCHANGED <<activities, lock, scaler, distance_threshold, train_features, fit_status,
                   fit_calls, min_support, test_features, sweep_i, sweep_log>>

NextCentroids == ComputeCentroids

SpecCentroids == InitCentroids /\ [][NextCentroids]_vars

-----------------------------------------------------------------------------
(* From the raw table to the centroids: features = extract_simple_features(df), *)
(* then compute_event_centroids(features, min_samples)                          *)

InitExtract ==
    /\ activities \in RawTables
    /\ lock = "none"
    /\ min_support \in 1..MaxMinSamples
    /\ train_features = <<>>
    /\ centroids = <<>>
    /\ scaler = NewScaler
    /\ distance_threshold = DISTANCE_THRESHOLD
    /\ fit_status = "never"
    /\ fit_calls = 0
    /\ result = NoResult
    /\ test_features = <<>>
    /\ sweep_i = 1
    /\ sweep_log = <<>>

\* features = extract_simple_features(df)
ExtractSimpleFeatures ==
    /\ result.op = "none"
    /\ \E x \in {extract_simple_features(activities)} :
          /\ train_features' = x.features
          /\ result' = [NoResult EXCEPT !.op = "extract_simple_features",
                                        !.kind = IF x.exc = "" THEN "return" ELSE "raise",
                                        !.exc = x.exc]
    /\ UNCHANGED <<activities, lock, centroids, scaler, distance_threshold, fit_status, fit_calls,
                   min_support, test_features, sweep_i, sweep_log>>

\* centroids = compute_event_centroids(features, min_support)
CentroidsOfFeatures ==
    /\ result.op = "extract_simple_features"
    /\ result.kind = "return"
    /\ centroids' = compute_event_centroids(train_features, min_support)
    /\ result' = [NoResult EXCEPT !.op = "compute_event_centroids", !.kind = "return"]
    /\ UNCHANGED <<activities, lock, scaler, distance_threshold, train_features, fit_status,
                   fit_calls, min_support, test_features, sweep_i, sweep_log>>

NextExtract == ExtractSimpleFeatures \/ CentroidsOfFeatures

SpecExtract == InitExtract /\ [][NextExtract]_vars

\* extract_simple_features on the tables without a date column
InitFallback ==
    /\ activities \in FallbackTables
    /\ lock = "none"
    /\ min_support = MIN_SAMPLES_PER_EVENT
    /\ train_features = <<>>
    /\ centroids = <<>>
    /\ scaler = NewScaler
    /\ distance_threshold = DISTANCE_THRESHOLD
    /\ fit_status = "never"
    /\ fit_calls = 0
    /\ result = NoResult
    /\ test_features = <<>>
    /\ sweep_i = 1
    /\ sweep_log = <<>>

NextFallback == ExtractSimpleFeatures

SpecFallback == InitFallback /\ [][NextFallback]_vars

\* the predictor over populations and queries with half-recorded coordinates
NextPartial ==
    \/ \E df \in PartialTables(fit_status) : Fit(df)
    \/ \E q \in PartialQueries : Predict(q)

SpecPartial == Init /\ [][NextPartial]_vars

-----------------------------------------------------------------------------
(* The threshold sweep as a state machine *)

\* the script after the train/test split, before the loop
InitTune ==
    /\ train_features \in TuneTrainTables
    /\ test_features \in TestTables
    /\ sweep_i = 1
    /\ sweep_log = <<>>
    /\ activities = NoActivities
    /\ lock = "none"
    /\ centroids = <<>>
    /\ scaler = NewScaler
    /\ distance_threshold = DISTANCE_THRESHOLD
    /\ fit_status = "never"
    /\ fit_calls = 0
    /\ result = NoResult
    /\ min_support = MIN_SAMPLES_PER_EVENT

\* one iteration of `for threshold in thresholds`; an exception ends the script
SweepIteration ==
    /\ sweep_i <= Len(thresholds)
    /\ result.kind # "raise"
    /\ \E it \in {sweep_iteration(thresholds[sweep_i], train_features, test_features, sweep_log)} :
          /\ centroids' = it.self.centroids
          /\ scaler' = it.self.scaler
          /\ distance_threshold' = it.self.distance_threshold
          /\ fit_status' = IF it.fit_exc = "" THEN "fitted" ELSE "failed"
          /\ fit_calls' = IF fit_calls < 2 THEN fit_calls + 1 ELSE fit_calls
          /\ sweep_log' = IF it.exc = "" THEN Append(sweep_log, it.entry) ELSE sweep_log
          /\ sweep_i' = IF it.exc = "" THEN sweep_i + 1 ELSE sweep_i
          /\ result' = [NoResult EXCEPT !.op = "sweep",
                                        !.kind = IF it.exc = "" THEN "return" ELSE "raise",
                                        !.exc = it.exc]
    /\ UNCHANGED <<activities, lock, train_features, test_features, min_support>>

NextTune == SweepIteration

SpecTune == InitTune /\ [][NextTune]_vars

-----------------------------------------------------------------------------
(* Properties *)

\* the most recent call was a predict that returned a tuple
PredictReturned == result.op = "predict" /\ result.kind = "return"

\* the confidence is 0 (and not NaN)
ConfIsZero(c) == c.den # 0 /\ c.num = 0

\* the composite distance of the most recent query to the i-th centroid
QueryDistance(i) ==
    custom_distance(FeatureVector(result.query), FeatureVector(centroids[i]), scaler).val

\* C1: predict on a predictor on which fit has never been called raises an
\* error; it never returns a tuple.
C1_PredictBeforeFitRaises ==
    (result.op = "predict" /\ fit_status = "never") => result.kind = "raise"

\* C2: after a fit that leaves the centroid mapping empty (no event reaches the
\* minimum support), predict raises an error instead of returning a default
\* prediction.
C2_EmptyCentroidsRaise ==
    (result.op = "predict" /\ fit_status = "fitted" /\ centroids = <<>>)
        => result.kind = "raise"

\* C3, as claimed: the result has event None and confidence 0 iff the nearest
\* distance is strictly greater than the threshold, and confidence 0 never
\* comes with a non-None event (nor a non-zero confidence with None).
C3_AsClaimed ==
    PredictReturned =>
        /\ (result.event = NoEvent /\ ConfIsZero(result.confidence))
              <=> result.distance > distance_threshold
        /\ ConfIsZero(result.confidence) <=> result.event = NoEvent

\* C3, amended: the result has event None and confidence 0 iff the nearest
\* distance is strictly greater than the threshold; event None always has
\* confidence 0; confidence 0 comes with a non-None event exactly when the
\* nearest distance equals a positive threshold.
C3_NoneIffAboveThreshold ==
    PredictReturned =>
        /\ (result.event = NoEvent /\ ConfIsZero(result.confidence))
              <=> result.distance > distance_threshold
        /\ result.event = NoEvent => ConfIsZero(result.confidence)
        /\ (ConfIsZero(result.confidence) /\ result.event # NoEvent)
              <=> (result.distance = distance_threshold /\ distance_threshold > 0)

\* C3 witness: a fitted predictor admits a query at distance = threshold > 0
C3_Witness ==
    /\ PredictReturned
    /\ fit_status = "fitted"
    /\ distance_threshold > 0
    /\ result.distance = distance_threshold
    /\ result.event # NoEvent
    /\ ConfIsZero(result.confidence)

\* C4: predict returns the minimum d of the composite distances to the stored
\* centroids (d <= the distance to every centroid, and d is the distance to
\* one of them; infinity when there is none); when d <= threshold the result
\* is (that centroid's event, d, 1 - d/threshold), otherwise (None, d, 0.0).
C4_NearestCentroid ==
    PredictReturned =>
        /\ \A i \in 1..Len(centroids) : result.distance <= QueryDistance(i)
        /\ centroids = <<>> => result.distance = Inf
        /\ centroids # <<>> =>
              \E i \in 1..Len(centroids) :
                  /\ QueryDistance(i) = result.distance
                  /\ result.distance <= distance_threshold
                        => result.event = centroids[i].event_name
        /\ (result.distance <= distance_threshold /\ distance_threshold > 0) =>
              result.confidence = [num |-> distance_threshold - result.distance,
                                   den |-> distance_threshold]
        /\ result.distance > distance_threshold =>
              (result.event = NoEvent /\ result.confidence = ZeroConfidence)

\* C4 witness: of two centroids the second is strictly nearer, and is admitted
\* at a distance > 0
C4_Witness ==
    /\ PredictReturned
    /\ Len(centroids) = 2
    /\ QueryDistance(2) < QueryDistance(1)
    /\ result.event = centroids[2].event_name
    /\ result.distance > 0

\* C5: for an admitted prediction under a positive threshold,
\* 0 <= confidence <= 1, and confidence = 1 exactly when the distance is 0.
C5_ConfidenceBounds ==
    (PredictReturned /\ result.event # NoEvent /\ distance_threshold > 0) =>
        /\ result.confidence.den > 0
        /\ 0 <= result.confidence.num
        /\ result.confidence.num <= result.confidence.den
        /\ result.confidence.num = result.confidence.den <=> result.distance = 0

\* C5 witness: an admitted prediction strictly between distance 0 and the threshold
C5_Witness ==
    /\ PredictReturned
    /\ result.event # NoEvent
    /\ 0 < result.distance
    /\ result.distance < distance_threshold

\* C6: after compute_event_centroids(df, m): a label with exactly m - 1 rows
\* is no key of the mapping, a label with exactly m rows is one, the keys are
\* distinct, and every centroid's sample_count is the number of rows with its
\* label and is >= m.
C6_MinimumSupport ==
    result.op = "compute_event_centroids" =>
        /\ \A e \in Events :
              /\ CountRows(train_features, e) = min_support - 1 => e \notin Keys(centroids)
              /\ CountRows(train_features, e) = min_support => e \in Keys(centroids)
        /\ \A i \in 1..Len(centroids) :
              /\ centroids[i].sample_count = CountRows(train_features, centroids[i].event_name)
              /\ centroids[i].sample_count >= min_support
              /\ \A j \in 1..Len(centroids) :
                    centroids[i].event_name = centroids[j].event_name => i = j

\* C6 witness: one label has exactly m - 1 >= 1 rows and is left out, another
\* has exactly m rows and is kept
C6_Witness ==
    /\ result.op = "compute_event_centroids"
    /\ min_support > 1
    /\ \E e \in Events :
          CountRows(train_features, e) = min_support - 1 /\ e \notin Keys(centroids)
    /\ \E e \in Events :
          CountRows(train_features, e) = min_support /\ e \in Keys(centroids)

\* C7: predict never returns the name of an event with fewer than
\* MIN_SAMPLES_PER_EVENT rows in the table last fitted: the predicted event is
\* None or a key of the centroid mapping.
C7_UnsupportedEventNeverPredicted ==
    PredictReturned =>
        \/ result.event = NoEvent
        \/ /\ result.event \in Keys(centroids)
           /\ CountRows(train_features, result.event) >= MIN_SAMPLES_PER_EVENT

\* C7 witness: the query has the very features of a training row of an event
\* with too few rows, under the widest threshold, and another event or None
\* is predicted
C7_Witness ==
    /\ PredictReturned
    /\ fit_status = "fitted"
    /\ distance_threshold = 200
    /\ \E i \in 1..Len(train_features) :
          /\ CountRows(train_features, train_features[i].event_name) < MIN_SAMPLES_PER_EVENT
          /\ FeatureVector(train_features[i]) = FeatureVector(result.query)
          /\ result.event # train_features[i].event_name
    /\ result.event # NoEvent

\* C8: whenever the query or a centroid lacks coordinates, predict completes
\* normally and the distance between the two is the temporal distance alone.
C8_MissingCoordinatesNeverAnError ==
    (result.op = "predict" /\ fit_status = "fitted") =>
        \A i \in 1..Len(centroids) :
            (result.query.start_lat = NaN \/ centroids[i].start_lat = NoneVal) =>
                /\ result.kind = "return"
                /\ custom_distance(FeatureVector(result.query), FeatureVector(centroids[i]),
                                   scaler)
                      = Returned(2 * temporal_distance(FeatureVector(result.query),
                                                       FeatureVector(centroids[i]), scaler))

\* C9: in the sweep, on one train split and one test split, a higher threshold
\* never has fewer known-event rows predicted as their true event and never
\* has more unknown-event rows predicted as None.
C9_ThresholdMonotonicity ==
    \A i, j \in 1..Len(sweep_log) :
        i < j =>
            /\ sweep_log[i].threshold < sweep_log[j].threshold
            /\ sweep_log[i].correct <= sweep_log[j].correct
            /\ sweep_log[i].correct_rejected >= sweep_log[j].correct_rejected

\* C9 witness: a complete sweep in which the matches strictly rise and the
\* rejections strictly fall
C9_Witness ==
    /\ Len(sweep_log) = Len(thresholds)
    /\ sweep_log[1].correct < sweep_log[Len(thresholds)].correct
    /\ sweep_log[1].correct_rejected > sweep_log[Len(thresholds)].correct_rejected

\* the outcome of predict(q) on a new predictor with the same threshold,
\* fitted once on the table last fitted
FreshRun(q) == predict(fit(NewPredictor(distance_threshold), train_features).self, q)

\* C10: whatever calls came before, the outcome of a predict after a fit is
\* the outcome of a fresh run (new predictor, same threshold, one fit on the
\* same table, the same query), and the centroid mapping is the one
\* compute_event_centroids gives for that table.
C10_Determinism ==
    fit_calls > 0 =>
        /\ centroids = compute_event_centroids(train_features, MIN_SAMPLES_PER_EVENT)
        /\ result.op = "predict" =>
              \E r \in {FreshRun(result.query)} :
                  /\ result.kind = r.kind
                  /\ result.exc = r.exc
                  /\ result.event = r.event
                  /\ result.distance = r.distance
                  /\ result.confidence = r.confidence

\* C10 witness: a predictor fitted more than once admits a query
C10_Witness ==
    /\ PredictReturned
    /\ fit_calls = 2
    /\ fit_status = "fitted"
    /\ result.event # NoEvent

\* the index of an event in the iteration order of the centroid mapping
IndexOf(event) == CHOOSE i \in 1..Len(centroids) : centroids[i].event_name = event

\* C11: when several centroids are at the minimum distance from the query,
\* predict returns the first of them in the iteration order of the centroid
\* mapping: no centroid before the returned one is at the returned distance.
C11_TieBreakFirst ==
    (PredictReturned /\ result.event # NoEvent) =>
        /\ QueryDistance(IndexOf(result.event)) = result.distance
        /\ \A i \in 1..Len(centroids) :
              QueryDistance(i) = result.distance => IndexOf(result.event) <= i

\* C11 witness: two centroids at the same distance from the query, the first
\* one returned
C11_Witness ==
    /\ PredictReturned
    /\ Len(centroids) = 2
    /\ QueryDistance(1) = QueryDistance(2)
    /\ result.event = centroids[1].event_name

\* the row predict_batch builds from the outcome of predict on one row
BatchRow(row) ==
    Only({[predicted_event |-> r.event, distance |-> r.distance, confidence |-> r.confidence,
           actual_event |-> row.event_name] : r \in {predict(Self, row)}})

\* C12: predict_batch returns one row per input row, in input order, and
\* row i is the outcome of predict on input row i alone.
C12_BatchIsRowwisePredict ==
    (result.op = "predict_batch" /\ result.kind = "return") =>
        /\ Len(result.predictions) = Len(result.rows)
        /\ \A i \in 1..Len(result.rows) : result.predictions[i] = BatchRow(result.rows[i])

\* C12 witness: a batch of two different rows with two different outcomes,
\* the first admitted
C12_Witness ==
    /\ result.op = "predict_batch"
    /\ result.kind = "return"
    /\ Len(result.rows) = 2
    /\ result.rows[1] # result.rows[2]
    /\ result.predictions[1].predicted_event # NoEvent
    /\ result.predictions[2].predicted_event = NoEvent

\* C13: after fit(P2), whatever was fitted before, the centroid mapping and
\* the scaler's parameters are those of a new predictor fitted once on P2.
C13_FitOverwrites ==
    fit_calls > 0 =>
        \E fresh \in {fit(NewPredictor(distance_threshold), train_features).self} :
            /\ centroids = fresh.centroids
            /\ scaler = fresh.scaler

\* C13 witness: a second fit has succeeded, on a table that gives a centroid,
\* and an event that had a centroid before it has none after it
C13_Witness ==
    /\ result.op = "fit"
    /\ fit_calls = 2
    /\ fit_status = "fitted"
    /\ centroids # <<>>
    /\ result.prior_keys \ Keys(centroids) # {}

\* C14: a predict or predict_batch call leaves the centroid mapping, the
\* scaler and the threshold as they were; a step that changes the centroids or
\* the scaler is a fit; no call changes the threshold.
C14_PostFitImmutability ==
    [][/\ result'.op \in {"predict", "predict_batch"}
             => UNCHANGED <<centroids, scaler, distance_threshold>>
       /\ (centroids' # centroids \/ scaler' # scaler) => result'.op = "fit"
       /\ distance_threshold' = distance_threshold]_vars

\* C14 witness: a fitted predictor with a centroid has admitted a row of a
\* batch, and its state is still the one its fit gave
C14_Witness ==
    /\ result.op = "predict_batch"
    /\ result.kind = "return"
    /\ fit_status = "fitted"
    /\ \E i \in 1..Len(result.predictions) : result.predictions[i].predicted_event # NoEvent
    /\ centroids = compute_event_centroids(train_features, MIN_SAMPLES_PER_EVENT)
    /\ scaler = ScalerFit(train_features)

\* the query with its coordinates stripped
Stripped(q) == [q EXCEPT !.start_lat = NaN, !.start_lng = NaN]

\* the most recent query and the i-th centroid both have coordinates
BothHaveCoordinates(i) ==
    /\ result.query.start_lat # NaN
    /\ result.query.start_lng # NaN
    /\ centroids[i].start_lat \notin {NaN, NoneVal}
    /\ centroids[i].start_lng \notin {NaN, NoneVal}

\* the coordinates of the most recent query are those of the i-th centroid
CoordinatesCoincide(i) ==
    /\ result.query.start_lat = centroids[i].start_lat
    /\ result.query.start_lng = centroids[i].start_lng

\* the score of the most recent query, coordinates stripped, to the i-th centroid
StrippedDistance(i) ==
    custom_distance(FeatureVector(Stripped(result.query)), FeatureVector(centroids[i]), scaler).val

\* the temporal term of the most recent query to the i-th centroid, in units of 1/200
TemporalTerm(i) ==
    2 * temporal_distance(FeatureVector(result.query), FeatureVector(centroids[i]), scaler)

\* the normalised coordinate term (coord_dist / 10.0) of the most recent query
\* to the i-th centroid, in units of 1/200
SpatialTerm(i) ==
    2 * (haversine_distance(result.query.start_lat, result.query.start_lng,
                            centroids[i].start_lat, centroids[i].start_lng) \div 10)

C16_DistanceFiniteNonNegative ==
    (PredictReturned /\ fit_status = "fitted") =>
        /\ result.distance # NaN
        /\ 0 <= result.distance
        /\ result.distance < Inf

\* C17: every iteration of the sweep, on every non-empty test split (with or
\* without known-event rows, with or without unknown-event rows), reports its
\* counts: known and unknown rows partition the test rows, the matches are
\* counted among the known rows, the rejections among the unknown rows, and
\* the overall count is matches + rejections over all test rows.
C17_CalibrationMetrics ==
    (result.op = "sweep" /\ test_features # <<>> /\ result.exc # "TypeError") =>
        /\ result.kind = "return"
        /\ \E e \in {sweep_log[Len(sweep_log)]} :
              /\ e.known + e.unknown = e.total
              /\ e.total = Len(test_features)
              /\ e.correct <= e.known
              /\ e.correct_rejected <= e.unknown
              /\ e.overall_correct = e.correct + e.correct_rejected

\* a coordinate value is absent (NaN in a feature row, None in a centroid)
Absent(v) == v \in {NaN, NoneVal}

\* C18: in every feature row extract_simple_features produces and in every
\* centroid compute_event_centroids produces from them, start_lat and
\* start_lng are both present or both absent.
C18_CoordinatesJointlyPresent ==
    /\ (result.op = "extract_simple_features" /\ result.kind = "return") =>
          \A i \in 1..Len(train_features) :
              Absent(train_features[i].start_lat) <=> Absent(train_features[i].start_lng)
    /\ result.op = "compute_event_centroids" =>
          \A i \in 1..Len(centroids) :
              Absent(centroids[i].start_lat) <=> Absent(centroids[i].start_lng)

\* the rows of the feature table labelled `event`
GroupRows(event) == {i \in 1..Len(train_features) : train_features[i].event_name = event}

RECURSIVE SumOver(_, _)
\* the sum of the column `col` of the feature table over the rows of I
SumOver(I, col) ==
    IF I = {} THEN 0
    ELSE LET i == CHOOSE j \in I : TRUE
         IN train_features[i][col] + SumOver(I \ {i}, col)

\* the rows of I that have a value in the column `col`
Having(I, col) == {i \in I : train_features[i][col] # NaN}

\* C19: for each centroid, start_lat (start_lng) is None exactly when every
\* row of its group lacks start_lat (start_lng), otherwise it is the mean over
\* the rows of the group that have it; day_of_year, distance_km and
\* start_hour are the means over all rows of the group.
C19_CentroidSpatialMean ==
    result.op = "compute_event_centroids" =>
        \A k \in 1..Len(centroids) :
            \E G \in {GroupRows(centroids[k].event_name)} :
                /\ G # {}
                /\ \A col \in {"start_lat", "start_lng"} :
                      /\ centroids[k][col] = NoneVal <=> Having(G, col) = {}
                      /\ Having(G, col) # {} =>
                            centroids[k][col] = SumOver(Having(G, col), col)
                                                   \div Cardinality(Having(G, col))
                /\ \A col \in {"day_of_year", "distance_km", "start_hour"} :
                      centroids[k][col] = SumOver(G, col) \div Cardinality(G)

\* C19 witness: a group of three rows, one without latitude and two with
\* different latitudes, whose centroid has the mean of the two
C19_Witness ==
    /\ result.op = "compute_event_centroids"
    /\ \E k \in 1..Len(centroids) :
          \E G \in {GroupRows(centroids[k].event_name)} :
              /\ Cardinality(G) = 3
              /\ Cardinality(Having(G, "start_lat")) = 2
              /\ \E i, j \in Having(G, "start_lat") :
                    train_features[i].start_lat # train_features[j].start_lat
              /\ centroids[k].start_lat = -3387

\* C20: distance_km is the kilometre column whenever the table has one, and
\* the metre column divided by 1000 only when it has none.
C20_KilometreColumnFirst ==
    (result.op = "extract_simple_features" /\ result.kind = "return") =>
        \A i \in 1..Len(train_features) :
            train_features[i].distance_km =
                IF "distance_km" \in activities.columns
                THEN activities.rows[i].distance_km
                ELSE activities.rows[i].distance \div 10

\* C21: when the query and a centroid both have coordinates, the composite
\* distance is 0.5 * temporal_distance + 0.5 * (haversine_km / 10); with
\* identical coordinates the coordinate term is 0 and the score is exactly
\* half the temporal distance.
C21_WeightedCombination ==
    (PredictReturned /\ fit_status = "fitted") =>
        \A i \in 1..Len(centroids) :
            BothHaveCoordinates(i) =>
                /\ 2 * QueryDistance(i) = TemporalTerm(i) + SpatialTerm(i)
                /\ CoordinatesCoincide(i) =>
                      (SpatialTerm(i) = 0 /\ 2 * QueryDistance(i) = TemporalTerm(i))

\* C21 witness: a query at the coordinates of a centroid and at a temporal
\* distance > 0 from it is given half that temporal distance
C21_Witness ==
    /\ PredictReturned
    /\ fit_status = "fitted"
    /\ \E i \in 1..Len(centroids) :
          /\ BothHaveCoordinates(i)
          /\ CoordinatesCoincide(i)
          /\ TemporalTerm(i) > 0
          /\ 2 * result.distance = TemporalTerm(i)

\* C22: the first statement of fit replaces the centroids and leaves the
\* scaler as the previous fit left it (or unfitted), and without a lock a
\* predict runs in that state; when the callers serialise fit and predict with
\* an exclusive lock, every predict finds the centroids and the scaler that
\* one and the same fit call produced.
C22_FitIsNotAtomic ==
    /\ [][(fit_status # "fitting" /\ fit_status' = "fitting") =>
              /\ centroids' = compute_event_centroids(train_features', MIN_SAMPLES_PER_EVENT)
              /\ scaler' = scaler]_vars
    /\ []((result.op = "predict" /\ fit_status = "fitting") => lock = "none")
    /\ []((result.op = "predict" /\ lock # "none" /\ fit_calls > 0) =>
              \E fresh \in {fit(NewPredictor(distance_threshold), train_features).self} :
                  /\ centroids = fresh.centroids
                  /\ scaler = fresh.scaler)

\* C22 witness: with no lock, a predict between the two statements of a fit
\* returns a match from the centroid of the new table and the scaler of
\* another table
C22_Witness ==
    /\ lock = "none"
    /\ fit_status = "fitting"
    /\ PredictReturned
    /\ result.event # NoEvent
    /\ centroids = compute_event_centroids(train_features, MIN_SAMPLES_PER_EVENT)
    /\ scaler.fitted
    /\ scaler # ScalerFit(train_features)

\* C23: after a fit, the scaler's mean and scale of each temporal column are
\* those of the column over all rows of the table given to fit, the rows of
\* events without a centroid included.
C23_ScalerOverWholePopulation ==
    fit_status = "fitted" =>
        /\ scaler.fitted
        /\ \A k \in 1..3 :
              /\ scaler.mean_[k] = SumSeq(Column(train_features, TemporalCols[k]))
                                      \div Len(train_features)
              /\ scaler.scale_[k] = ScalerFit(train_features).scale_[k]

\* C23 witness: the fitted table has an event with a centroid and rows of an
\* event without one, and the scaler is not the one the retained rows alone give
C23_Witness ==
    /\ fit_status = "fitted"
    /\ centroids # <<>>
    /\ \E i \in 1..Len(train_features) : train_features[i].event_name \notin Keys(centroids)
    /\ scaler # ScalerFit(RetainedRows(train_features))

\* the k-th temporal column of the table last fitted has one value only
ZeroVariance(k) ==
    \A i, j \in 1..Len(train_features) :
        train_features[i][TemporalCols[k]] = train_features[j][TemporalCols[k]]

LastDayOfMonth(month) == IF month = 12 THEN 365 ELSE DaysBeforeMonth[month + 1]

\* C25: without a date column, the day_of_year of a row is a fixed day in
\* 1..366 that lies inside the row's month (in a leap year and in any other
\* year), month 1 gives 15 and month 8 gives 227, a later month gives a later
\* day, and start_hour is the integer hour, with no fractional part.
C25_FallbackExtraction ==
    (result.op = "extract_simple_features" /\ "date" \notin activities.columns) =>
        /\ result.kind = "return"
        /\ Len(train_features) = Len(activities.rows)
        /\ \A i \in 1..Len(train_features) :
              \E row \in {activities.rows[i]} :
                  /\ train_features[i].day_of_year % 100 = 0
                  /\ train_features[i].day_of_year \div 100 \in 1..366
                  /\ train_features[i].day_of_year \div 100 > DaysBeforeMonth[row.month] + 1
                  /\ train_features[i].day_of_year \div 100 <= LastDayOfMonth(row.month)
                  /\ row.month = 1 => train_features[i].day_of_year = 1500
                  /\ row.month = 8 => train_features[i].day_of_year = 22700
                  /\ train_features[i].start_hour = 100 * row.hour
                  /\ \A j \in 1..Len(train_features) :
                        row.month < activities.rows[j].month
                            => train_features[i].day_of_year < train_features[j].day_of_year

\* C25 witness: a table without a date column with a row of month 2 at hour
\* 23 and a row of month 12
C25_Witness ==
    /\ result.op = "extract_simple_features"
    /\ "date" \notin activities.columns
    /\ Len(train_features) = 2
    /\ activities.rows[1].month = 2
    /\ activities.rows[1].hour = 23
    /\ activities.rows[2].month = 12
    /\ train_features[1].day_of_year = 4500
    /\ train_features[1].start_hour = 2300
    /\ train_features[2].day_of_year = 34900

\* the outcome of the most recent query on a predictor that differs from this
\* one in its threshold only
WithThreshold(t) == predict([Self EXCEPT !.distance_threshold = t], result.query)

\* C26: a predictor fitted on the same table that differs in its threshold
\* only returns the same distance for the same query (or raises the same
\* exception), and when both admit the query they return the same event.
C26_ThresholdIndependence ==
    (result.op = "predict" /\ fit_calls > 0) =>
        \A t \in Thresholds :
            \E other \in {WithThreshold(t)} :
                /\ other.kind = result.kind
                /\ other.exc = result.exc
                /\ other.distance = result.distance
                /\ (other.event # NoEvent /\ result.event # NoEvent)
                      => other.event = result.event

\* C26 witness: of two centroids the second is the nearer, the query is
\* admitted at a distance > 0, and a predictor with a lower threshold rejects
\* it at the same distance
C26_Witness ==
    /\ PredictReturned
    /\ Len(centroids) = 2
    /\ result.event = centroids[2].event_name
    /\ result.distance > 0
    /\ \E t \in Thresholds :
          /\ t < distance_threshold
          /\ WithThreshold(t).event = NoEvent
          /\ WithThreshold(t).distance = result.distance

\* a step that is a fit call that raises
FailedFitStep == result'.op = "fit" /\ result'.kind = "raise"

\* C27, as claimed: a fit whose scaler fit raises has replaced the centroid
\* mapping while the scaler keeps its previous parameters, and the predictor
\* after it differs from the predictor before it.
C27_AsClaimed ==
    [][FailedFitStep =>
          /\ centroids' = compute_event_centroids(train_features', MIN_SAMPLES_PER_EVENT)
          /\ scaler' = scaler
          /\ <<centroids', scaler'>> # <<centroids, scaler>>]_vars

\* C27, amended: a fit whose scaler fit raises has replaced the centroid
\* mapping and has reset the scaler to unfitted, nothing is rolled back, and
\* the predictor after it differs from the predictor before it exactly when
\* that one had a centroid or a fitted scaler.
C27_FailedFitNotRolledBack ==
    [][FailedFitStep =>
          /\ centroids' = compute_event_centroids(train_features', MIN_SAMPLES_PER_EVENT)
          /\ scaler' = NewScaler
          /\ <<centroids', scaler'>> # <<centroids, scaler>>
                <=> (centroids # <<>> \/ scaler.fitted)]_vars

\* C27 witness: a fit on an empty table has raised on a predictor that had a
\* centroid: the mapping is now empty and the scaler unfitted
C27_Witness ==
    /\ result.op = "fit"
    /\ result.kind = "raise"
    /\ result.prior_keys # {}
    /\ train_features = <<>>
    /\ centroids = <<>>
    /\ ~scaler.fitted

\* the distances from the query to the centroids that are defined
DefinedDistances == {QueryDistance(i) : i \in 1..Len(centroids)} \ {NaN}

\* a latitude or longitude that is recorded
Recorded(x) == x # NaN /\ x # NoneVal

\* the query and centroid i both have a latitude and one of them has no
\* longitude
HalfMissing(i) ==
    /\ Recorded(result.query.start_lat) /\ Recorded(centroids[i].start_lat)
    /\ ~Recorded(result.query.start_lng) \/ ~Recorded(centroids[i].start_lng)

StrippedPrediction == predict(Self, Stripped(result.query))

\* C29: for a centroid with coordinates and a query with coordinates, when the
\* normalised coordinate distance (km/10) exceeds the temporal distance the
\* score of the query without its coordinates is strictly lower than its score
\* with them, and when it is smaller the score without coordinates is strictly
\* higher; so removing the coordinates can turn a rejection into an admission,
\* and when it does the centroid admitted has coordinates and is farther
\* from the query in space than in time
C29_StrippingCanAdmit ==
    (PredictReturned /\ fit_status = "fitted") =>
        /\ \A i \in 1..Len(centroids) :
               BothHaveCoordinates(i) =>
                   /\ SpatialTerm(i) > TemporalTerm(i) => StrippedDistance(i) < QueryDistance(i)
                   /\ SpatialTerm(i) < TemporalTerm(i) => StrippedDistance(i) > QueryDistance(i)
        /\ (result.event = NoEvent /\ StrippedPrediction.event # NoEvent) =>
               \E i \in 1..Len(centroids) :
                   /\ centroids[i].event_name = StrippedPrediction.event
                   /\ BothHaveCoordinates(i)
                   /\ SpatialTerm(i) > TemporalTerm(i)
                   /\ StrippedDistance(i) <= distance_threshold
                   /\ distance_threshold < QueryDistance(i)

\* C29 witness: a query with coordinates has been rejected, and the same query
\* without its coordinates is admitted
C29_Witness ==
    /\ PredictReturned
    /\ fit_status = "fitted"
    /\ result.query.start_lat # NaN
    /\ result.event = NoEvent
    /\ StrippedPrediction.kind = "return"
    /\ StrippedPrediction.event # NoEvent

\* C30: predict yields a well-defined confidence in [0, 1] for every threshold
\* >= 0, including threshold 0 with a query at distance exactly 0 from its
\* nearest centroid (admitted by `min_distance <= threshold`).
C30_ConfidenceWellDefined ==
    PredictReturned =>
        /\ result.confidence.den > 0
        /\ 0 <= result.confidence.num
        /\ result.confidence.num <= result.confidence.den

====
